---- MODULE Spec2Model ----
(***************************************************************************)
(* A model of zenml.zen_stores.base_zen_store.BaseZenStore: the store      *)
(* contract, its bootstrap (_initialize_database) and its analytics hook,  *)
(* and of the schema revision 743ec82b1b3c of zenml.zen_stores.migrations. *)
(*                                                                         *)
(* The backend (the concrete store behind the abstract _xxx methods) is a  *)
(* record `db` of entity sets; every abstract method is one atomic backend *)
(* operation, written as an operator from a backend state to a result      *)
(* record [db, res, val].  The public methods of BaseZenStore are          *)
(* operators built from them exactly as the source composes them.          *)
(***************************************************************************)
EXTENDS Naturals, Sequences, FiniteSets, TLC

VARIABLES
    db,             \* the backend: users, projects, components, stacks, next_id
    policy,         \* the backend's referential policy: "reject" or "cascade"
    tracker_up,     \* whether the analytics collector accepts events
    pc,             \* per store instance: where its construction stands
    config,         \* per store instance: [track_analytics, skip_default_registrations]
    err,            \* per store instance: the error its construction raised
    emitted,        \* per store instance: events delivered by its construction
    orchestrator,   \* per store instance: local `orchestrator` of register_default_stack
    artifact_store, \* per store instance: local `artifact_store` of register_default_stack
    lastOp,         \* the last caller-issued operation: [op, res, trace]
    ops,            \* number of caller-issued operations so far
    constructions,  \* number of store constructions started so far
    schema,         \* the persisted database: [dialect, version, tables]
    migration       \* the migration run: [status, start, mark, attempt, log]

vars == <<db, policy, tracker_up, pc, config, err, emitted, orchestrator,
          artifact_store, lastOp, ops, constructions, schema, migration>>

---------------------------------------------------------------------------
(* Bounds of the model. *)
MaxOps == 2
MaxConstructions == 2
MaxConcurrentOps == 1
MaxMigrations == 4

(* Program constants. *)
DEFAULT_USERNAME == "default"
DEFAULT_PROJECT_NAME == "default"
DEFAULT_STACK_NAME == "default"

ORCHESTRATOR == "orchestrator"
ARTIFACT_STORE == "artifact_store"
StackComponentType == {ORCHESTRATOR, ARTIFACT_STORE}

SQL == "sql"
REST == "rest"
StoreType == {SQL, REST}

(* Python's None, for identifiers (identifiers are 1, 2, ...). *)
None == 0

Stores == {"s1", "s2"}
UserNames == {DEFAULT_USERNAME, "u1"}
ProjectNames == {DEFAULT_PROJECT_NAME, "p1"}
StackNames == {DEFAULT_STACK_NAME, "s1"}
ComponentNames == {"default", "c1"}

---------------------------------------------------------------------------
(* Results of backend operations. *)
Ok(d, v) == [db |-> d, res |-> "ok", val |-> v]
Raise(d, e) == [db |-> d, res |-> e, val |-> None]

Ids(S) == {x.id : x \in S}

EmptyDb ==
    [users |-> {}, projects |-> {}, components |-> {}, stacks |-> {},
     pipelines |-> {}, next_id |-> 1]

(* A stack references component c. *)
References(st, c) == c \in st.components

(* Removal of a set of components and stacks, with the stacks that         *)
(* reference a removed component.                                          *)
Purge(d, comps, stks) ==
    [d EXCEPT
        !.components = {c \in @ : c.id \notin comps},
        !.stacks = {st \in @ : /\ st.id \notin stks
                              /\ ~ \E c \in comps : References(st, c)}]

---------------------------------------------------------------------------
(* USERS *)

_create_user(d, name) ==
    IF \E u \in d.users : u.name = name
    THEN Raise(d, "EntityExistsError")
    ELSE Ok([d EXCEPT !.users = @ \cup {[id |-> d.next_id, name |-> name]},
                      !.next_id = @ + 1],
            d.next_id)

_get_user(d, name) ==
    IF \E u \in d.users : u.name = name
    THEN Ok(d, (CHOOSE u \in d.users : u.name = name).id)
    ELSE Raise(d, "KeyError")

_update_user(d, user_id, name) ==
    IF user_id \notin Ids(d.users) THEN Raise(d, "KeyError")
    ELSE IF \E u \in d.users : u.name = name /\ u.id # user_id
    THEN Raise(d, "EntityExistsError")
    ELSE Ok([d EXCEPT !.users = {IF u.id = user_id
                                 THEN [u EXCEPT !.name = name] ELSE u : u \in @}],
            user_id)

_delete_user(d, pol, user_id) ==
    LET comps == {c.id : c \in {c \in d.components : c.owner = user_id}}
        stks == {st.id : st \in {st \in d.stacks : st.owner = user_id}}
        gone == [d EXCEPT !.users = {u \in @ : u.id # user_id}]
    IN  IF user_id \notin Ids(d.users) THEN Raise(d, "KeyError")
        ELSE IF comps = {} /\ stks = {} THEN Ok(gone, None)
        ELSE IF pol = "reject" THEN Raise(d, "IntegrityError")
        ELSE Ok(Purge(gone, comps, stks), None)

(* PROJECTS *)

_create_project(d, name) ==
    IF \E p \in d.projects : p.name = name
    THEN Raise(d, "EntityExistsError")
    ELSE Ok([d EXCEPT !.projects = @ \cup {[id |-> d.next_id, name |-> name]},
                      !.next_id = @ + 1],
            d.next_id)

_get_project(d, name) ==
    IF \E p \in d.projects : p.name = name
    THEN Ok(d, (CHOOSE p \in d.projects : p.name = name).id)
    ELSE Raise(d, "KeyError")

_update_project(d, project_name, name) ==
    IF ~ \E p \in d.projects : p.name = project_name THEN Raise(d, "KeyError")
    ELSE IF name # project_name /\ \E p \in d.projects : p.name = name
    THEN Raise(d, "EntityExistsError")
    ELSE Ok([d EXCEPT !.projects = {IF p.name = project_name
                                    THEN [p EXCEPT !.name = name] ELSE p : p \in @}],
            _get_project(d, project_name).val)

_delete_project(d, pol, project_name) ==
    LET pid == _get_project(d, project_name).val
        comps == {c.id : c \in {c \in d.components : c.project = pid}}
        stks == {st.id : st \in {st \in d.stacks : st.project = pid}}
        gone == [d EXCEPT !.projects = {p \in @ : p.name # project_name}]
    IN  IF ~ \E p \in d.projects : p.name = project_name THEN Raise(d, "KeyError")
        ELSE IF comps = {} /\ stks = {} THEN Ok(gone, None)
        ELSE IF pol = "reject" THEN Raise(d, "IntegrityError")
        ELSE Ok(Purge(gone, comps, stks), None)

(* STACK COMPONENTS: a component is [id, name, type, owner, project]. *)

_register_stack_component(d, user_id, project_id, component) ==
    IF user_id \notin Ids(d.users) \/ project_id \notin Ids(d.projects)
    THEN Raise(d, "KeyError")
    ELSE IF \E c \in d.components :
                /\ c.name = component.name /\ c.type = component.type
                /\ c.owner = user_id /\ c.project = project_id
    THEN Raise(d, "StackComponentExistsError")
    ELSE Ok([d EXCEPT
                !.components = @ \cup {[id |-> d.next_id, name |-> component.name,
                                        type |-> component.type, owner |-> user_id,
                                        project |-> project_id]},
                !.next_id = @ + 1],
            d.next_id)

_update_stack_component(d, component_id, name) ==
    LET old == CHOOSE c \in d.components : c.id = component_id
    IN  IF component_id \notin Ids(d.components) THEN Raise(d, "KeyError")
        ELSE IF \E c \in d.components :
                    /\ c.id # component_id
                    /\ c.name = name /\ c.type = old.type
                    /\ c.owner = old.owner /\ c.project = old.project
        THEN Raise(d, "StackComponentExistsError")
        ELSE Ok([d EXCEPT !.components = {IF c.id = component_id
                                          THEN [c EXCEPT !.name = name]
                                          ELSE c : c \in @}],
                component_id)

_delete_stack_component(d, pol, component_id) ==
    IF component_id \notin Ids(d.components) THEN Raise(d, "KeyError")
    ELSE IF ~ \E st \in d.stacks : References(st, component_id)
    THEN Ok(Purge(d, {component_id}, {}), None)
    ELSE IF pol = "reject" THEN Raise(d, "IntegrityError")
    ELSE Ok(Purge(d, {component_id}, {}), None)

(* STACKS: a stack is [id, name, owner, project, is_shared, components],   *)
(* components the set of the identifiers of its components (the source     *)
(* builds it as {c.type: c for c in ...} and reads it as                   *)
(* `for c in stack.components`).                                           *)

(* Two of the components named by comps are of the same type. *)
RepeatsType(d, comps) ==
    \E x \in d.components, y \in d.components :
        /\ x.id \in comps /\ y.id \in comps
        /\ x.id # y.id /\ x.type = y.type

stacks_empty(d) == d.stacks = {}

_register_stack(d, user_id, project_id, stack) ==
    IF \/ user_id \notin Ids(d.users) \/ project_id \notin Ids(d.projects)
       \/ ~ (stack.components \subseteq Ids(d.components))
    THEN Raise(d, "KeyError")
    ELSE IF RepeatsType(d, stack.components)
    THEN Raise(d, "ValidationError")
    ELSE IF \E st \in d.stacks :
                st.name = stack.name /\ st.owner = user_id /\ st.project = project_id
    THEN Raise(d, "StackExistsError")
    ELSE Ok([d EXCEPT
                !.stacks = @ \cup {[id |-> d.next_id, name |-> stack.name,
                                    owner |-> user_id, project |-> project_id,
                                    is_shared |-> stack.is_shared,
                                    components |-> stack.components]},
                !.next_id = @ + 1],
            d.next_id)

_update_stack(d, stack_id, stack) ==
    LET old == CHOOSE st \in d.stacks : st.id = stack_id
    IN  IF stack_id \notin Ids(d.stacks) THEN Raise(d, "KeyError")
        ELSE IF ~ (stack.components \subseteq Ids(d.components))
        THEN Raise(d, "KeyError")
        ELSE IF RepeatsType(d, stack.components)
        THEN Raise(d, "ValidationError")
        ELSE IF \E st \in d.stacks :
                    /\ st.id # stack_id /\ st.name = stack.name
                    /\ st.owner = old.owner /\ st.project = old.project
        THEN Raise(d, "StackExistsError")
        ELSE Ok([d EXCEPT !.stacks = {IF st.id = stack_id
                                      THEN [st EXCEPT !.name = stack.name,
                                                      !.is_shared = stack.is_shared,
                                                      !.components = stack.components]
                                      ELSE st : st \in @}],
                stack_id)

_delete_stack(d, stack_id) ==
    IF stack_id \notin Ids(d.stacks) THEN Raise(d, "KeyError")
    ELSE Ok(Purge(d, {}, {stack_id}), None)

_list_stacks(d, project_id) == {st \in d.stacks : st.project = project_id}

_get_stack(d, stack_id) ==
    IF stack_id \in Ids(d.stacks) THEN Ok(d, stack_id) ELSE Raise(d, "KeyError")

(* LOOKUPS AND LISTINGS of the other entity kinds. *)

_get_stack_component(d, component_id) ==
    IF component_id \in Ids(d.components) THEN Ok(d, component_id)
    ELSE Raise(d, "KeyError")

_list_stack_components(d, project_id) ==
    {c \in d.components : c.project = project_id}

_list_users(d) == d.users

_list_projects(d) == d.projects

---------------------------------------------------------------------------
(* The analytics hook.  `e` is the environment of a call:                  *)
(* [track_analytics, up, policy].  The result is the sequence of events    *)
(* the collector received.                                                 *)

track_event(up, event) == IF up THEN <<event>> ELSE <<>>

_track_event(e, event) ==
    IF e.track_analytics THEN track_event(e.up, event) ELSE <<>>

(* The observable course of a public operation: the events delivered      *)
(* before the backend call, then "commit" if the backend call succeeded.   *)
Traced(ev, r) ==
    [db |-> r.db, res |-> r.res, val |-> r.val,
     trace |-> ev \o (IF r.res = "ok" THEN <<"commit">> ELSE <<>>)]

---------------------------------------------------------------------------
(* The public operations of BaseZenStore. *)

default_user_id(d) ==
    LET r == _get_user(d, DEFAULT_USERNAME)
    IN  IF r.res = "KeyError" THEN None ELSE r.val

default_project_id(d) ==
    LET r == _get_project(d, DEFAULT_PROJECT_NAME)
    IN  IF r.res = "KeyError" THEN None ELSE r.val

stacks(d) == _list_stacks(d, default_project_id(d))

register_stack(d, e, user_id, project_id, stack) ==
    Traced(_track_event(e, "REGISTERED_STACK"),
           _register_stack(d, user_id, project_id, stack))

update_stack_checking_the_tracker(d, e, stack_id, stack) ==
    IF track_event(e.up, "UPDATED_STACK") = <<>>
    THEN Traced(<<>>, Raise(d, "RuntimeError"))
    ELSE Traced(track_event(e.up, "UPDATED_STACK"),
                _update_stack(d, stack_id, stack))

update_stack(d, e, stack_id, stack) ==
    Traced(track_event(e.up, "UPDATED_STACK"), _update_stack(d, stack_id, stack))

(* delete_stack that returns without the backend call. *)
delete_stack_without_backend_call(d, e, stack_id) ==
    Traced(<<>>, IF stack_id \in Ids(d.stacks) THEN Ok(d, None)
                 ELSE Raise(d, "KeyError"))

delete_stack(d, e, stack_id) == Traced(<<>>, _delete_stack(d, stack_id))

register_stack_component(d, e, user_id, project_id, component) ==
    Traced(<<>>, _register_stack_component(d, user_id, project_id, component))

update_stack_component(d, e, component_id, name) ==
    Traced(_track_event(e, "UPDATED_STACK_COMPONENT"),
           _update_stack_component(d, component_id, name))

delete_stack_component(d, e, component_id) ==
    Traced(<<>>, _delete_stack_component(d, e.policy, component_id))

(* create_user that answers a name clash with the existing user. *)
create_user_returning_existing(d, e, name) ==
    LET r == _create_user(d, name)
    IN  Traced(_track_event(e, "CREATED_USER"),
               IF r.res = "EntityExistsError"
               THEN Ok(d, _get_user(d, name).val) ELSE r)

create_user(d, e, name) ==
    Traced(_track_event(e, "CREATED_USER"), _create_user(d, name))

update_user(d, e, user_id, name) == Traced(<<>>, _update_user(d, user_id, name))

delete_user(d, e, user_id) ==
    Traced(_track_event(e, "DELETED_USER"), _delete_user(d, e.policy, user_id))

(* create_project that answers a name clash with the existing project. *)
create_project_returning_existing(d, e, name) ==
    LET r == _create_project(d, name)
    IN  Traced(_track_event(e, "CREATED_PROJECT"),
               IF r.res = "EntityExistsError"
               THEN Ok(d, _get_project(d, name).val) ELSE r)

create_project(d, e, name) ==
    Traced(_track_event(e, "CREATED_PROJECT"), _create_project(d, name))

update_project(d, e, project_name, name) ==
    Traced(<<>>, _update_project(d, project_name, name))

delete_project(d, e, project_name) ==
    Traced(_track_event(e, "DELETED_PROJECT"),
           _delete_project(d, e.policy, project_name))

(* Lookups and listings: no event, the result of the backend call. *)

list_stacks(d, project_id) == _list_stacks(d, project_id)

get_stack(d, stack_id) == _get_stack(d, stack_id)

list_stack_components(d, project_id) == _list_stack_components(d, project_id)

get_stack_component(d, component_id) == _get_stack_component(d, component_id)

list_users(d) == _list_users(d)

get_user(d, name) == _get_user(d, name)

list_projects(d) == _list_projects(d)

get_project(d, name) == _get_project(d, name)

(* get_pipeline is declared abstract, without a backend method of its own: *)
(* "PipelineModel if found, None otherwise" (Optional[PipelineModel]).      *)
get_pipeline(d, pipeline_id) ==
    IF pipeline_id \in Ids(d.pipelines) THEN Ok(d, pipeline_id) ELSE Ok(d, None)

---------------------------------------------------------------------------
(* Store construction: create_store, __init__ and the bootstrap. *)

NoConfig == [track_analytics |-> TRUE, skip_default_registrations |-> FALSE]

Env(s) ==
    [track_analytics |-> config[s].track_analytics, up |-> tracker_up,
     policy |-> policy]

get_store_class_with_fallback(type) == "SqlZenStore"

get_store_class(type) == IF type = SQL THEN "SqlZenStore" ELSE "TypeError"

(* __init__ that runs the bootstrap whatever skip_default_registrations. *)
__init__always_registering(skip_default_registrations, initialize_ok) ==
    IF ~ initialize_ok
    THEN [pc |-> "failed", err |-> "RuntimeError",
          carries |-> {"type", "url", "cause"}]
    ELSE [pc |-> "user_lookup", err |-> "none", carries |-> {}]

(* __init__ whose _initialize failure does not stop the construction. *)
__init__unguarded(skip_default_registrations, initialize_ok) ==
    IF ~ skip_default_registrations
    THEN [pc |-> "user_lookup", err |-> "none", carries |-> {}]
    ELSE [pc |-> "ready", err |-> "none", carries |-> {}]

(* __init__ after the Pydantic constructor: _initialize, then the bootstrap *)
(* unless skipped.  The result is the next position of the construction,    *)
(* the error raised and what its message carries.                           *)
__init__(skip_default_registrations, initialize_ok) ==
    IF ~ initialize_ok
    THEN [pc |-> "failed", err |-> "RuntimeError",
          carries |-> {"type", "url", "cause"}]
    ELSE IF ~ skip_default_registrations
    THEN [pc |-> "user_lookup", err |-> "none", carries |-> {}]
    ELSE [pc |-> "ready", err |-> "none", carries |-> {}]

create_store(type, skip_default_registrations, initialize_ok) ==
    IF get_store_class(type) = "TypeError"
    THEN [pc |-> "failed", err |-> "TypeError", carries |-> {"type"}]
    ELSE __init__(skip_default_registrations, initialize_ok)

_initialize_database_without_probe(d) == "orchestrator"

_initialize_database_without_registration(d) == "ready"

(* _initialize_database: the probe that decides on register_default_stack. *)
_initialize_database(d) ==
    IF stacks_empty(d) THEN "orchestrator" ELSE "ready"

(* create_default_user that creates the user without the event. *)
create_default_user_without_event(d, e) ==
    Traced(<<>>, _create_user(d, DEFAULT_USERNAME))

create_default_user(d, e) ==
    Traced(_track_event(e, "CREATED_DEFAULT_USER"),
           _create_user(d, DEFAULT_USERNAME))

create_default_project(d, e) ==
    Traced(_track_event(e, "CREATED_DEFAULT_PROJECT"),
           _create_project(d, DEFAULT_PROJECT_NAME))

default_component(type) == [name |-> "default", type |-> type]

default_stack_unshared(o, a) ==
    [name |-> DEFAULT_STACK_NAME, is_shared |-> FALSE,
     components |-> {o, a}]

default_stack_without_artifact_store(o, a) ==
    [name |-> DEFAULT_STACK_NAME, is_shared |-> TRUE,
     components |-> {o}]

default_stack(o, a) ==
    [name |-> DEFAULT_STACK_NAME, is_shared |-> TRUE,
     components |-> {o, a}]

(* A construction step of store s that ends at position p with error x,    *)
(* backend d and delivered events ev.                                      *)
Step(s, p, x, d, ev) ==
    /\ pc' = [pc EXCEPT ![s] = p]
    /\ err' = [err EXCEPT ![s] = x]
    /\ db' = d
    /\ emitted' = [emitted EXCEPT ![s] = @ \o ev]

Fails(s, r) ==
    /\ Step(s, "failed", r.res, r.db, SelectSeq(r.trace, LAMBDA x : x # "commit"))
    /\ config' = [config EXCEPT ![s] = NoConfig]
    /\ orchestrator' = [orchestrator EXCEPT ![s] = None]
    /\ artifact_store' = [artifact_store EXCEPT ![s] = None]
    /\ UNCHANGED <<schema, migration, policy, tracker_up, lastOp, ops, constructions>>

Construct(s) ==
    /\ pc[s] \in {"none", "ready", "failed"}
    /\ constructions < MaxConstructions
    /\ constructions' = constructions + 1
    /\ \E type \in StoreType, skip \in BOOLEAN, ta \in BOOLEAN, ok \in BOOLEAN :
          LET r == create_store(type, skip, ok)
          IN  /\ pc' = [pc EXCEPT ![s] = r.pc]
              /\ err' = [err EXCEPT ![s] = r.err]
              /\ config' = [config EXCEPT ![s] =
                                IF r.pc = "failed" THEN NoConfig
                                ELSE [track_analytics |-> ta,
                                      skip_default_registrations |-> skip]]
    /\ emitted' = [emitted EXCEPT ![s] = <<>>]
    /\ orchestrator' = [orchestrator EXCEPT ![s] = None]
    /\ artifact_store' = [artifact_store EXCEPT ![s] = None]
    /\ UNCHANGED <<db, schema, migration, policy, tracker_up, lastOp, ops>>

(* create_default_user without its `if not self.default_user_id` *)
UserLookup_without_check(s) ==
    /\ pc[s] = "user_lookup"
    /\ Step(s, "user_create", "none", db, <<>>)
    /\ UNCHANGED <<schema, migration, policy, tracker_up, config, orchestrator, artifact_store,
                   lastOp, ops, constructions>>

(* create_default_user: `if not self.default_user_id` *)
UserLookup(s) ==
    /\ pc[s] = "user_lookup"
    /\ Step(s, IF default_user_id(db) = None THEN "user_create"
               ELSE "project_lookup", "none", db, <<>>)
    /\ UNCHANGED <<schema, migration, policy, tracker_up, config, orchestrator, artifact_store,
                   lastOp, ops, constructions>>

(* create_default_user: the event, then _create_user *)
UserCreate(s) ==
    /\ pc[s] = "user_create"
    /\ LET r == create_default_user(db, Env(s))
       IN  IF r.res = "ok"
           THEN /\ Step(s, "project_lookup", "none", r.db,
                        SelectSeq(r.trace, LAMBDA x : x # "commit"))
                /\ UNCHANGED <<schema, migration, policy, tracker_up, config, orchestrator,
                               artifact_store, lastOp, ops, constructions>>
           ELSE Fails(s, r)

ProjectLookup(s) ==
    /\ pc[s] = "project_lookup"
    /\ Step(s, IF default_project_id(db) = None THEN "project_create"
               ELSE "probe", "none", db, <<>>)
    /\ UNCHANGED <<schema, migration, policy, tracker_up, config, orchestrator, artifact_store,
                   lastOp, ops, constructions>>

ProjectCreate(s) ==
    /\ pc[s] = "project_create"
    /\ LET r == create_default_project(db, Env(s))
       IN  IF r.res = "ok"
           THEN /\ Step(s, "probe", "none", r.db,
                        SelectSeq(r.trace, LAMBDA x : x # "commit"))
                /\ UNCHANGED <<schema, migration, policy, tracker_up, config, orchestrator,
                               artifact_store, lastOp, ops, constructions>>
           ELSE Fails(s, r)

(* _initialize_database: `if self.stacks_empty` *)
Probe(s) ==
    /\ pc[s] = "probe"
    /\ Step(s, _initialize_database(db), "none", db, <<>>)
    /\ UNCHANGED <<schema, migration, policy, tracker_up, config, orchestrator, artifact_store,
                   lastOp, ops, constructions>>

(* register_default_stack: the orchestrator *)
RegisterOrchestrator(s) ==
    /\ pc[s] = "orchestrator"
    /\ LET r == register_stack_component(db, Env(s), default_user_id(db),
                    default_project_id(db), default_component(ORCHESTRATOR))
       IN  IF r.res = "ok"
           THEN /\ Step(s, "artifact_store", "none", r.db, <<>>)
                /\ orchestrator' = [orchestrator EXCEPT ![s] = r.val]
                /\ UNCHANGED <<schema, migration, policy, tracker_up, config, artifact_store,
                               lastOp, ops, constructions>>
           ELSE Fails(s, r)

(* register_default_stack: the artifact store *)
RegisterArtifactStore(s) ==
    /\ pc[s] = "artifact_store"
    /\ LET r == register_stack_component(db, Env(s), default_user_id(db),
                    default_project_id(db), default_component(ARTIFACT_STORE))
       IN  IF r.res = "ok"
           THEN /\ Step(s, "stack", "none", r.db, <<>>)
                /\ artifact_store' = [artifact_store EXCEPT ![s] = r.val]
                /\ UNCHANGED <<schema, migration, policy, tracker_up, config, orchestrator,
                               lastOp, ops, constructions>>
           ELSE Fails(s, r)

(* register_default_stack registering the stack through register_stack *)
RegisterStack_through_register_stack(s) ==
    /\ pc[s] = "stack"
    /\ LET r == register_stack(db, Env(s), default_user_id(db),
                    default_project_id(db),
                    default_stack(orchestrator[s], artifact_store[s]))
       IN  IF r.res = "ok"
           THEN /\ Step(s, "ready", "none", r.db,
                        SelectSeq(r.trace, LAMBDA x : x # "commit")
                            \o _track_event(Env(s), "REGISTERED_DEFAULT_STACK"))
                /\ orchestrator' = [orchestrator EXCEPT ![s] = None]
                /\ artifact_store' = [artifact_store EXCEPT ![s] = None]
                /\ UNCHANGED <<schema, migration, policy, tracker_up, config, lastOp, ops,
                               constructions>>
           ELSE Fails(s, r)

(* register_default_stack with the terminal event before _register_stack *)
RegisterStack_event_first(s) ==
    /\ pc[s] = "stack"
    /\ LET r == _register_stack(db, default_user_id(db), default_project_id(db),
                    default_stack(orchestrator[s], artifact_store[s]))
           ev == _track_event(Env(s), "REGISTERED_DEFAULT_STACK")
       IN  IF r.res = "ok"
           THEN /\ Step(s, "ready", "none", r.db, ev)
                /\ orchestrator' = [orchestrator EXCEPT ![s] = None]
                /\ artifact_store' = [artifact_store EXCEPT ![s] = None]
                /\ UNCHANGED <<schema, migration, policy, tracker_up, config, lastOp, ops,
                               constructions>>
           ELSE Fails(s, [r EXCEPT !.res = r.res] @@ [trace |-> ev])

(* register_default_stack: _register_stack, then the terminal event *)
RegisterStack(s) ==
    /\ pc[s] = "stack"
    /\ LET r == _register_stack(db, default_user_id(db), default_project_id(db),
                    default_stack(orchestrator[s], artifact_store[s]))
       IN  IF r.res = "ok"
           THEN /\ Step(s, "ready", "none", r.db,
                        _track_event(Env(s), "REGISTERED_DEFAULT_STACK"))
                /\ orchestrator' = [orchestrator EXCEPT ![s] = None]
                /\ artifact_store' = [artifact_store EXCEPT ![s] = None]
                /\ UNCHANGED <<schema, migration, policy, tracker_up, config, lastOp, ops,
                               constructions>>
           ELSE Fails(s, [r EXCEPT !.res = r.res] @@ [trace |-> <<>>])

(* The process of store s ends while its bootstrap is running: whatever   *)
(* the bootstrap has persisted stays, since the registrations of           *)
(* register_default_stack are separate backend calls.                      *)
Interrupt(s) ==
    /\ pc[s] \in {"user_lookup", "user_create", "project_lookup",
                  "project_create", "probe", "orchestrator", "artifact_store",
                  "stack"}
    /\ Fails(s, [db |-> db, res |-> "Interrupted", trace |-> <<>>])

---------------------------------------------------------------------------
(* Caller-issued operations, through a constructed store. *)

Call(s, name, r) ==
    /\ pc[s] = "ready"
    /\ ops < MaxOps
    /\ ops' = ops + 1
    /\ db' = r.db
    /\ lastOp' = [op |-> name, res |-> r.res, trace |-> r.trace]
    /\ UNCHANGED <<schema, migration, policy, tracker_up, pc, config, err, emitted, orchestrator,
                   artifact_store, constructions>>

(* Identifiers a caller may pass: those of S and one that names nothing. *)
Args(S) == Ids(S) \cup {db.next_id}

(* Stacks a caller may pass: a name, a flag and a set of registered        *)
(* components with an orchestrator and an artifact store among them, and   *)
(* possibly more than one of a type.                                       *)
StackArgs ==
    {[name |-> n, is_shared |-> sh, components |-> cs] :
        n \in StackNames, sh \in BOOLEAN,
        cs \in {x \in SUBSET Ids(db.components) :
                  \A t \in StackComponentType :
                      \E c \in db.components : c.id \in x /\ c.type = t}}

CallCreateUser(s) ==
    \E n \in UserNames : Call(s, "create_user", create_user(db, Env(s), n))

CallUpdateUser(s) ==
    \E i \in Args(db.users), n \in UserNames :
        Call(s, "update_user", update_user(db, Env(s), i, n))

CallDeleteUser(s) ==
    \E i \in Args(db.users) : Call(s, "delete_user", delete_user(db, Env(s), i))

CallCreateProject(s) ==
    \E n \in ProjectNames :
        Call(s, "create_project", create_project(db, Env(s), n))

CallUpdateProject(s) ==
    \E o \in ProjectNames, n \in ProjectNames :
        Call(s, "update_project", update_project(db, Env(s), o, n))

CallDeleteProject(s) ==
    \E n \in ProjectNames :
        Call(s, "delete_project", delete_project(db, Env(s), n))

CallRegisterStack(s) ==
    \E u \in Ids(db.users), p \in Ids(db.projects), st \in StackArgs :
        Call(s, "register_stack", register_stack(db, Env(s), u, p, st))

CallUpdateStack(s) ==
    \E i \in Args(db.stacks), st \in StackArgs :
        Call(s, "update_stack", update_stack(db, Env(s), i, st))

CallDeleteStack(s) ==
    \E i \in Args(db.stacks) :
        Call(s, "delete_stack", delete_stack(db, Env(s), i))

CallRegisterStackComponent(s) ==
    \E u \in Ids(db.users), p \in Ids(db.projects),
       n \in ComponentNames, t \in StackComponentType :
        Call(s, "register_stack_component",
             register_stack_component(db, Env(s), u, p, [name |-> n, type |-> t]))

CallUpdateStackComponent(s) ==
    \E i \in Args(db.components), n \in ComponentNames :
        Call(s, "update_stack_component",
             update_stack_component(db, Env(s), i, n))

CallDeleteStackComponent(s) ==
    \E i \in Args(db.components) :
        Call(s, "delete_stack_component",
             delete_stack_component(db, Env(s), i))

---------------------------------------------------------------------------
(* Schema revision 743ec82b1b3c ("Update size of build images").           *)
(*                                                                         *)
(* The database is a record `schema` = [dialect, version, tables]: version *)
(* is the revision identifier the database records, tables maps a table    *)
(* name to its columns, and a column is [type, nullable].                  *)

revision == "743ec82b1b3c"

(* The length of the widened images column. *)
LongTextLength == 16777215

down_revision_unlinked == "earlier"

down_revision == "9971237fa937"

(* Column types: sa.TEXT(), sa.String(length=n), mysql.MEDIUMTEXT(). *)
TEXT == [name |-> "TEXT", length |-> None]
String(length) == [name |-> "String", length |-> length]
MEDIUMTEXT == [name |-> "MEDIUMTEXT", length |-> None]

(* type.with_variant(variant, dialect_name), as the dialect compiles it. *)
with_variant(type, variant, dialect_name, dialect) ==
    IF dialect = dialect_name THEN variant ELSE type

(* batch_op.alter_column(column_name, existing_type=, type_=,              *)
(* existing_nullable=) on the columns cols of one table: the column gets   *)
(* the new type; MySQL restates the whole column definition and so sets    *)
(* its nullability to existing_nullable, the other dialects leave it.      *)
alter_column(cols, column_name, existing_type, type_, existing_nullable, dialect) ==
    [cols EXCEPT ![column_name] =
        [type |-> type_,
         nullable |-> IF dialect = "mysql" THEN existing_nullable
                      ELSE @.nullable]]

upgrade_of_every_text_column(tables, dialect) ==
    [t \in DOMAIN tables |->
        [c \in DOMAIN tables[t] |->
            IF tables[t][c].type = TEXT
            THEN [tables[t][c] EXCEPT !.type =
                     with_variant(String(LongTextLength), MEDIUMTEXT, "mysql",
                                  dialect)]
            ELSE tables[t][c]]]

upgrade(tables, dialect) ==
    [tables EXCEPT !["pipeline_build"] =
        alter_column(@, "images", TEXT,
                     with_variant(String(LongTextLength), MEDIUMTEXT, "mysql",
                                  dialect),
                     FALSE, dialect)]

downgrade(tables, dialect) ==
    [tables EXCEPT !["pipeline_build"] =
        alter_column(@, "images",
                     with_variant(String(LongTextLength), MEDIUMTEXT, "mysql",
                                  dialect),
                     TEXT, FALSE, dialect)]

(* The chain.  The script of 9971237fa937 is not among the sources: it     *)
(* supersedes an earlier revision and leaves the columns modelled here as  *)
(* 743ec82b1b3c declares them to exist.                                    *)
Earlier == "earlier"
Scripts == {revision, down_revision}
Supersedes(r) == IF r = revision THEN down_revision ELSE Earlier
HeadRevision == CHOOSE r \in Scripts : \A q \in Scripts : Supersedes(q) # r
Forward(r, tables, dialect) ==
    IF r = revision THEN upgrade(tables, dialect) ELSE tables

Dialects == {"mysql", "sqlite", "postgresql"}
ColumnTypes == {TEXT, String(LongTextLength), MEDIUMTEXT}
Columns == [type : ColumnTypes, nullable : BOOLEAN]

(* The schemas of a database at the predecessor revision: images is TEXT   *)
(* and not nullable; the other columns are whatever they are.              *)
Tables ==
    {[pipeline_build |-> [images |-> [type |-> TEXT, nullable |-> FALSE],
                          name |-> c1],
      pipeline |-> [name |-> c2]] : c1 \in Columns, c2 \in Columns}

NoMigration ==
    [status |-> "idle", start |-> HeadRevision, mark |-> 0,
     attempt |-> [op |-> "none", rev |-> "none"], log |-> <<>>]

MayMigrate == Len(migration.log) < MaxMigrations

StoreUnchanged ==
    UNCHANGED <<db, policy, tracker_up, pc, config, err, emitted, orchestrator,
                artifact_store, lastOp, ops, constructions>>

(* The step that applies the forward script r and records it. *)
Apply(r) ==
    /\ schema' = [schema EXCEPT
                    !.tables = Forward(r, schema.tables, schema.dialect),
                    !.version = r]
    /\ migration' = [migration EXCEPT
                        !.attempt = [op |-> "upgrade", rev |-> r],
                        !.log = Append(@, [op |-> "upgrade", rev |-> r])]

(* Opening a store migrates its database to the head, one script at a      *)
(* time, each applied to the revision it supersedes.                       *)
OpenStore ==
    /\ migration.status = "idle"
    /\ migration' = [migration EXCEPT !.status = "migrating",
                                      !.start = schema.version,
                                      !.mark = Len(migration.log)]
    /\ UNCHANGED schema
    /\ StoreUnchanged

MigrateStep ==
    /\ migration.status = "migrating"
    /\ schema.version # HeadRevision
    /\ \E r \in Scripts : Supersedes(r) = schema.version /\ Apply(r)
    /\ StoreUnchanged

FinishOpen ==
    /\ migration.status = "migrating"
    /\ schema.version = HeadRevision
    /\ migration' = [migration EXCEPT !.status = "idle"]
    /\ UNCHANGED schema
    /\ StoreUnchanged

(* A request to apply one forward script: refused, fatally, unless the     *)
(* database is at the revision the script supersedes.                      *)
RunUpgrade(r) ==
    /\ migration.status = "idle"
    /\ IF schema.version = Supersedes(r)
       THEN Apply(r)
       ELSE /\ migration' = [migration EXCEPT
                               !.status = "error",
                               !.attempt = [op |-> "upgrade", rev |-> r]]
            /\ UNCHANGED schema
    /\ StoreUnchanged

(* A request to apply the reverse script of 743ec82b1b3c. *)
RunDowngrade ==
    /\ migration.status = "idle"
    /\ IF schema.version = revision
       THEN /\ schema' = [schema EXCEPT
                            !.tables = downgrade(schema.tables, schema.dialect),
                            !.version = down_revision]
            /\ migration' = [migration EXCEPT
                               !.attempt = [op |-> "downgrade",
                                            rev |-> revision],
                               !.log = Append(@, [op |-> "downgrade",
                                                  rev |-> revision])]
       ELSE /\ migration' = [migration EXCEPT
                               !.status = "error",
                               !.attempt = [op |-> "downgrade",
                                            rev |-> revision]]
            /\ UNCHANGED schema
    /\ StoreUnchanged

---------------------------------------------------------------------------
Init ==
    /\ db = EmptyDb
    /\ policy \in {"reject", "cascade"}
    /\ tracker_up \in BOOLEAN
    /\ pc = [s \in Stores |-> "none"]
    /\ config = [s \in Stores |-> NoConfig]
    /\ err = [s \in Stores |-> "none"]
    /\ emitted = [s \in Stores |-> <<>>]
    /\ orchestrator = [s \in Stores |-> None]
    /\ artifact_store = [s \in Stores |-> None]
    /\ lastOp = [op |-> "none", res |-> "ok", trace |-> <<>>]
    /\ ops = 0
    /\ constructions = 0
    /\ schema = [dialect |-> "sqlite", version |-> HeadRevision,
                 tables |-> upgrade(CHOOSE t \in Tables : TRUE, "sqlite")]
    /\ migration = NoMigration

(* Store s is constructed and may be called. *)
Accepts(s) == pc[s] = "ready" /\ ops < MaxOps

StoreNext(s) ==
    \/ Construct(s)
    \/ UserLookup(s)
    \/ UserCreate(s)
    \/ ProjectLookup(s)
    \/ ProjectCreate(s)
    \/ Probe(s)
    \/ RegisterOrchestrator(s)
    \/ RegisterArtifactStore(s)
    \/ RegisterStack(s)
    \/ Accepts(s) /\ CallCreateUser(s)
    \/ Accepts(s) /\ CallUpdateUser(s)
    \/ Accepts(s) /\ CallDeleteUser(s)
    \/ Accepts(s) /\ CallCreateProject(s)
    \/ Accepts(s) /\ CallUpdateProject(s)
    \/ Accepts(s) /\ CallDeleteProject(s)
    \/ Accepts(s) /\ CallRegisterStack(s)
    \/ Accepts(s) /\ CallUpdateStack(s)
    \/ Accepts(s) /\ CallDeleteStack(s)
    \/ Accepts(s) /\ CallRegisterStackComponent(s)
    \/ Accepts(s) /\ CallUpdateStackComponent(s)
    \/ Accepts(s) /\ CallDeleteStackComponent(s)

(* One store instance at a time, constructed directly (any track_analytics,*)
(* any skip_default_registrations): constructions in sequence, operations  *)
(* between them.                                                           *)
NextSeq == StoreNext("s1")

SpecSeq == Init /\ [][NextSeq]_vars

(* Two store instances against one backend, created through create_store   *)
(* (which passes no track_analytics: the default, True), their             *)
(* constructions and operations interleaved.                               *)
Through_create_store(s) == config'[s].track_analytics

MayCall == ops < MaxConcurrentOps

Next ==
    \E s \in Stores :
        \/ Construct(s) /\ Through_create_store(s)
        \/ UserLookup(s)
        \/ UserCreate(s)
        \/ ProjectLookup(s)
        \/ ProjectCreate(s)
        \/ Probe(s)
        \/ RegisterOrchestrator(s)
        \/ RegisterArtifactStore(s)
        \/ RegisterStack(s)
        \/ MayCall /\ CallCreateUser(s)
        \/ MayCall /\ CallUpdateUser(s)
        \/ MayCall /\ CallDeleteUser(s)
        \/ MayCall /\ CallCreateProject(s)
        \/ MayCall /\ CallUpdateProject(s)
        \/ MayCall /\ CallDeleteProject(s)
        \/ MayCall /\ CallRegisterStack(s)
        \/ MayCall /\ CallUpdateStack(s)
        \/ MayCall /\ CallDeleteStack(s)
        \/ MayCall /\ CallRegisterStackComponent(s)
        \/ MayCall /\ CallUpdateStackComponent(s)
        \/ MayCall /\ CallDeleteStackComponent(s)

InitUp == Init /\ tracker_up = TRUE

(* One store at a time while the analytics collector is unreachable. *)
InitDown == Init /\ tracker_up = FALSE

SpecDown == InitDown /\ [][NextSeq]_vars

Spec == InitUp /\ [][Next]_vars

(* Constructions of one store at a time, any of which may be interrupted,  *)
(* and no caller-issued operation.                                         *)
NextRecover ==
    \/ Construct("s1")
    \/ UserLookup("s1")
    \/ UserCreate("s1")
    \/ ProjectLookup("s1")
    \/ ProjectCreate("s1")
    \/ Probe("s1")
    \/ RegisterOrchestrator("s1")
    \/ RegisterArtifactStore("s1")
    \/ RegisterStack("s1")
    \/ Interrupt("s1")

SpecRecover == Init /\ [][NextRecover]_vars

(* Two stores on one backend, with callers that create, rename and delete *)
(* users and projects while a bootstrap is running.                        *)
NextRace ==
    \E s \in Stores :
        \/ Construct(s) /\ Through_create_store(s)
        \/ UserLookup(s)
        \/ UserCreate(s)
        \/ ProjectLookup(s)
        \/ ProjectCreate(s)
        \/ Probe(s)
        \/ RegisterOrchestrator(s)
        \/ RegisterArtifactStore(s)
        \/ RegisterStack(s)
        \/ Accepts(s) /\ CallCreateUser(s)
        \/ Accepts(s) /\ CallUpdateUser(s)
        \/ Accepts(s) /\ CallDeleteUser(s)
        \/ Accepts(s) /\ CallCreateProject(s)
        \/ Accepts(s) /\ CallUpdateProject(s)
        \/ Accepts(s) /\ CallDeleteProject(s)

SpecRace == InitUp /\ [][NextRace]_vars

(* The migrations alone: a database of any dialect, recorded at the head,  *)
(* at its predecessor or at an earlier revision, and no store constructed. *)
InitMigration ==
    /\ db = EmptyDb
    /\ policy = "reject"
    /\ tracker_up = TRUE
    /\ pc = [s \in Stores |-> "none"]
    /\ config = [s \in Stores |-> NoConfig]
    /\ err = [s \in Stores |-> "none"]
    /\ emitted = [s \in Stores |-> <<>>]
    /\ orchestrator = [s \in Stores |-> None]
    /\ artifact_store = [s \in Stores |-> None]
    /\ lastOp = [op |-> "none", res |-> "ok", trace |-> <<>>]
    /\ ops = 0
    /\ constructions = 0
    /\ \E d \in Dialects, t \in Tables, v \in {Earlier, down_revision, revision} :
          schema = [dialect |-> d, version |-> v,
                    tables |-> IF v = revision THEN upgrade(t, d) ELSE t]
    /\ migration = NoMigration

NextMigration ==
    \/ OpenStore
    \/ MayMigrate /\ MigrateStep
    \/ FinishOpen
    \/ \E r \in Scripts : MayMigrate /\ RunUpgrade(r)
    \/ MayMigrate /\ RunDowngrade

SpecMigration == InitMigration /\ [][NextMigration]_vars

---------------------------------------------------------------------------
(* Vocabulary of the properties. *)

Named(S, n) == {x \in S : x.name = n}

AlreadyExists == {"EntityExistsError", "StackComponentExistsError", "StackExistsError"}

(* Stack st of backend d references one existing component of each of the  *)
(* two types, and nothing else.                                            *)
Complete(d, st) ==
    /\ st.components \subseteq Ids(d.components)
    /\ \A t \in {ORCHESTRATOR, ARTIFACT_STORE} :
          Cardinality({c \in d.components : c.id \in st.components /\ c.type = t})
              = 1

DefaultsExist(d) ==
    /\ Named(d.users, DEFAULT_USERNAME) # {}
    /\ Named(d.projects, DEFAULT_PROJECT_NAME) # {}
    /\ Named(d.stacks, DEFAULT_STACK_NAME) # {}

(* Store s has been constructed with the bootstrap and is usable. *)
Bootstrapped(s) == pc[s] = "ready" /\ ~ config[s].skip_default_registrations

(* A step of a construction, as opposed to a caller-issued operation. *)
ConstructionStep == ops' = ops

(* This step completes a construction of store s that ran the bootstrap. *)
Completes(s) ==
    /\ pc[s] # "ready"
    /\ pc'[s] = "ready"
    /\ ~ config'[s].skip_default_registrations

Max(a, b) == IF a >= b THEN a ELSE b

---------------------------------------------------------------------------
(* C1: constructing a store (with the bootstrap) any number of times in    *)
(* sequence never results in more than one user, project or stack named    *)
(* "default": no step of a construction brings the number of default-named *)
(* users, projects or stacks above one.                                    *)
C1_SequentialConstructionsKeepOneDefault ==
    [][ConstructionStep =>
        /\ Cardinality(Named(db'.users, DEFAULT_USERNAME))
              <= Max(1, Cardinality(Named(db.users, DEFAULT_USERNAME)))
        /\ Cardinality(Named(db'.projects, DEFAULT_PROJECT_NAME))
              <= Max(1, Cardinality(Named(db.projects, DEFAULT_PROJECT_NAME)))
        /\ Cardinality(Named(db'.stacks, DEFAULT_STACK_NAME))
              <= Max(1, Cardinality(Named(db.stacks, DEFAULT_STACK_NAME)))]_vars

(* A second construction in sequence has completed on the backend the      *)
(* first one seeded, and there is one default user, project and stack.     *)
C1_Witness ==
    /\ constructions = 2 /\ ops = 0 /\ Bootstrapped("s1")
    /\ Cardinality(Named(db.users, DEFAULT_USERNAME)) = 1
    /\ Cardinality(Named(db.projects, DEFAULT_PROJECT_NAME)) = 1
    /\ Cardinality(Named(db.stacks, DEFAULT_STACK_NAME)) = 1

(* C2: when store constructions run concurrently against an initially      *)
(* empty backend (no caller-issued operation), no construction raises an   *)
(* Already-Exists error, and once all have finished exactly one default    *)
(* stack exists.                                                           *)
C2_ConcurrentConstructionsNeverRaiseAlreadyExists ==
    ops = 0 =>
        /\ \A s \in Stores : err[s] \notin AlreadyExists
        /\ (\A s \in Stores : Bootstrapped(s))
              => Cardinality(Named(db.stacks, DEFAULT_STACK_NAME)) = 1

(* C3: after the first construction (with the bootstrap) on an empty       *)
(* backend there is exactly one user named "default", one project named    *)
(* "default" and one stack named "default", which is shared and references *)
(* exactly one orchestrator and one artifact store.                        *)
C3_FreshConstructionSeedsDefaults ==
    (constructions = 1 /\ ops = 0 /\ Bootstrapped("s1")) =>
        /\ Cardinality(Named(db.users, DEFAULT_USERNAME)) = 1
        /\ Cardinality(Named(db.projects, DEFAULT_PROJECT_NAME)) = 1
        /\ Cardinality(Named(db.stacks, DEFAULT_STACK_NAME)) = 1
        /\ \A st \in Named(db.stacks, DEFAULT_STACK_NAME) :
              st.is_shared /\ Complete(db, st)

C3_Witness ==
    /\ constructions = 1 /\ ops = 0 /\ Bootstrapped("s1")
    /\ Cardinality(db.components) = 2

C5_FailedBootstrapLeavesNoOrphanComponent ==
    [][\A s \in Stores :
          (pc[s] \in {"artifact_store", "stack"} /\ pc'[s] = "failed") =>
              \/ orchestrator[s] \notin Ids(db'.components)
              \/ \E st \in db'.stacks : References(st, orchestrator[s])]_vars

C7_ConstructionOnSeededBackendIsNoOp ==
    [][\A s \in Stores :
          (ConstructionStep /\ pc'[s] # pc[s] /\ pc[s] \notin {"none", "ready", "failed"}
             /\ DefaultsExist(db)) =>
              /\ db' = db
              /\ emitted'[s] = emitted[s]
              /\ pc'[s] # "failed"]_vars

(* A second construction, with analytics on and the collector up, has      *)
(* completed on the seeded backend without an event.                       *)
C7_Witness ==
    /\ constructions = 2 /\ ops = 0 /\ Bootstrapped("s1")
    /\ config["s1"].track_analytics /\ tracker_up
    /\ DefaultsExist(db) /\ emitted["s1"] = <<>>

(* C8: once a store has completed the bootstrap, whatever operations       *)
(* callers issue, a user and a project named "default" exist and           *)
(* default_user_id and default_project_id are not null.                    *)
C8_DefaultUserAndProjectAlwaysExist ==
    (\E s \in Stores : Bootstrapped(s)) =>
        /\ Cardinality(Named(db.users, DEFAULT_USERNAME)) = 1
        /\ Cardinality(Named(db.projects, DEFAULT_PROJECT_NAME)) = 1
        /\ default_user_id(db) # None
        /\ default_project_id(db) # None

(* C9: an operation delivers its event only after the backend call has     *)
(* committed, and a failed operation delivers none.                        *)
C9_EventsFollowTheCommit ==
    /\ lastOp.res # "ok" => lastOp.trace = <<>>
    /\ \A i \in 1..Len(lastOp.trace) :
          lastOp.trace[i] # "commit" =>
              \E j \in 1..(i - 1) : lastOp.trace[j] = "commit"

(* C10: with the collector failing, every event-emitting operation of a    *)
(* constructed store, and every event-emitting step of a bootstrap, has    *)
(* the same backend effect and the same result as with the collector       *)
(* working.                                                                *)
SameOutcome(a, b) == [a EXCEPT !.trace = <<>>] = [b EXCEPT !.trace = <<>>]

C10_EmissionFailureIsInvisible ==
    ~ tracker_up => \A s \in Stores :
        LET up == [Env(s) EXCEPT !.up = TRUE]
            down == [Env(s) EXCEPT !.up = FALSE]
        IN  /\ pc[s] = "ready" =>
                /\ \A n \in UserNames :
                      SameOutcome(create_user(db, up, n), create_user(db, down, n))
                /\ \A i \in Args(db.users) :
                      SameOutcome(delete_user(db, up, i), delete_user(db, down, i))
                /\ \A n \in ProjectNames :
                      /\ SameOutcome(create_project(db, up, n),
                                     create_project(db, down, n))
                      /\ SameOutcome(delete_project(db, up, n),
                                     delete_project(db, down, n))
                /\ \A u \in Ids(db.users), p \in Ids(db.projects), st \in StackArgs :
                      SameOutcome(register_stack(db, up, u, p, st),
                                  register_stack(db, down, u, p, st))
                /\ \A i \in Args(db.stacks), st \in StackArgs :
                      SameOutcome(update_stack(db, up, i, st),
                                  update_stack(db, down, i, st))
                /\ \A i \in Args(db.components), n \in ComponentNames :
                      SameOutcome(update_stack_component(db, up, i, n),
                                  update_stack_component(db, down, i, n))
            /\ pc[s] = "user_create" =>
                SameOutcome(create_default_user(db, up), create_default_user(db, down))
            /\ pc[s] = "project_create" =>
                SameOutcome(create_default_project(db, up),
                            create_default_project(db, down))

(* update_stack has committed although the collector was down. *)
C10_Witness ==
    /\ ~ tracker_up
    /\ lastOp.op = "update_stack" /\ lastOp.res = "ok"
    /\ lastOp.trace = <<"commit">>

---------------------------------------------------------------------------
(* Events of one operation: its trace without the commit mark. *)
Events(trace) == SelectSeq(trace, LAMBDA x : x # "commit")

CreateAndDeleteOps ==
    {"create_user", "delete_user", "create_project", "delete_project",
     "register_stack", "delete_stack", "register_stack_component",
     "delete_stack_component"}

(* The stores that can issue an operation have analytics enabled and the   *)
(* collector accepts events.                                               *)
AnalyticsEnabled ==
    /\ tracker_up
    /\ \A s \in Stores : pc[s] = "ready" => config[s].track_analytics

(* C11: with analytics enabled, every invocation of a public create or     *)
(* delete operation delivers exactly one event (stated for the invocations *)
(* that succeed).                                                          *)
C11_CreateAndDeleteEmitOneEvent ==
    [][(ops' = ops + 1 /\ lastOp'.op \in CreateAndDeleteOps
          /\ lastOp'.res = "ok" /\ AnalyticsEnabled)
          => Len(Events(lastOp'.trace)) = 1]_vars

---------------------------------------------------------------------------
(* This step is a construction of store s leaving create_store / __init__. *)
Constructs(s) ==
    /\ pc[s] \in {"none", "ready", "failed"}
    /\ constructions' = constructions + 1
    /\ pc'[s] \in {"user_lookup", "ready", "failed"}
    /\ \A t \in Stores \ {s} : pc'[t] = pc[t]

(* C12: create_store for a backend kind other than SQL (REST included)     *)
(* fails with a TypeError whatever the other arguments and whether or not  *)
(* _initialize would succeed; the construction that raised it has no store *)
(* instance, ran no bootstrap step, changed nothing in the backend and     *)
(* emitted no event.                                                       *)
C12_UnsupportedKindFailsWithTypeError ==
    [][\A s \in Stores : Constructs(s) =>
          /\ \A type \in StoreType \ {SQL}, skip \in BOOLEAN, ok \in BOOLEAN :
                /\ create_store(type, skip, ok).pc = "failed"
                /\ create_store(type, skip, ok).err = "TypeError"
                /\ "type" \in create_store(type, skip, ok).carries
          /\ err'[s] = "TypeError" =>
                /\ pc'[s] = "failed"
                /\ db' = db
                /\ emitted'[s] = <<>>]_vars

(* create_store has failed with a TypeError on a seeded backend. *)
C12_Witness ==
    /\ err["s1"] = "TypeError" /\ pc["s1"] = "failed"
    /\ constructions = 2 /\ DefaultsExist(db)

(* C13: when _initialize raises, the construction fails with a             *)
(* RuntimeError that carries the backend kind and the URL, whether or not  *)
(* the bootstrap was to be skipped; no bootstrap step has run, nothing in  *)
(* the backend has changed, no event was emitted and the store is not      *)
(* usable.                                                                 *)
C13_FailedInitializeFailsConstruction ==
    [][\A s \in Stores : Constructs(s) =>
          /\ \A skip \in BOOLEAN :
                /\ create_store(SQL, skip, FALSE).pc = "failed"
                /\ create_store(SQL, skip, FALSE).err = "RuntimeError"
                /\ {"type", "url"} \subseteq create_store(SQL, skip, FALSE).carries
          /\ err'[s] = "RuntimeError" =>
                /\ pc'[s] = "failed"
                /\ db' = db
                /\ emitted'[s] = <<>>]_vars

(* A construction has failed with a RuntimeError on an empty backend,      *)
(* which is still empty.                                                   *)
C13_Witness ==
    /\ err["s1"] = "RuntimeError" /\ pc["s1"] = "failed"
    /\ constructions = 1 /\ db = EmptyDb

---------------------------------------------------------------------------
(* C14: on a constructed store, creating a user or a project under a name  *)
(* that is taken fails with EntityExistsError and leaves the backend as it *)
(* was; creating under a free name twice succeeds once, fails the second   *)
(* time, and the listing holds exactly one entry of that name.             *)
C14_CollidingCreateFailsAndChangesNothing ==
    \A s \in Stores : pc[s] = "ready" =>
        /\ \A n \in ProjectNames :
              LET first == create_project(db, Env(s), n)
                  second == create_project(first.db, Env(s), n)
              IN  /\ first.res = (IF Named(db.projects, n) # {}
                                  THEN "EntityExistsError" ELSE "ok")
                  /\ second.res = "EntityExistsError"
                  /\ second.db = first.db
                  /\ Cardinality(Named(list_projects(second.db), n)) = 1
        /\ \A n \in UserNames :
              LET first == create_user(db, Env(s), n)
                  second == create_user(first.db, Env(s), n)
              IN  /\ first.res = (IF Named(db.users, n) # {}
                                  THEN "EntityExistsError" ELSE "ok")
                  /\ second.res = "EntityExistsError"
                  /\ second.db = first.db
                  /\ Cardinality(Named(list_users(second.db), n)) = 1

(* Project "p1" was created, and the second create_project("p1") failed.   *)
C14_Witness ==
    /\ lastOp.op = "create_project" /\ lastOp.res = "EntityExistsError"
    /\ ops = 2
    /\ Cardinality(Named(list_projects(db), "p1")) = 1

---------------------------------------------------------------------------
(* No two entities of S share a name. *)
UniqueNames(S) == \A x \in S, y \in S : x.name = y.name => x = y

(* One create of an entity kind: either it succeeds, the kind grows by one *)
(* entity and its names stay unique, or it fails with EntityExistsError,   *)
(* the name is taken and the backend is unchanged.                         *)
CreatesOne(before, after, ok, error) ==
    \/ /\ ok
       /\ Cardinality(after) = Cardinality(before) + 1
       /\ UniqueNames(after)
    \/ /\ ~ ok
       /\ error = "EntityExistsError"
       /\ after = before
       /\ db' = db

(* C15: of the create calls that stores issue concurrently under one key   *)
(* (create_user and create_project of a constructed store, and the default *)
(* user and default project of a running bootstrap), each either succeeds  *)
(* and adds the one entity of that key, or fails with EntityExistsError    *)
(* because another has succeeded: never two successes, never a failure     *)
(* without a success.                                                      *)
C15_CollidingCreatesOneSuccess ==
    [][/\ \A s \in Stores :
             /\ (pc[s] = "user_create" /\ pc'[s] # pc[s]) =>
                   /\ CreatesOne(db.users, db'.users, pc'[s] = "project_lookup",
                                 err'[s])
                   /\ pc'[s] = "failed" <=> Named(db.users, DEFAULT_USERNAME) # {}
             /\ (pc[s] = "project_create" /\ pc'[s] # pc[s]) =>
                   /\ CreatesOne(db.projects, db'.projects, pc'[s] = "probe",
                                 err'[s])
                   /\ pc'[s] = "failed"
                         <=> Named(db.projects, DEFAULT_PROJECT_NAME) # {}
       /\ (ops' = ops + 1 /\ lastOp'.op = "create_user") =>
             CreatesOne(db.users, db'.users, lastOp'.res = "ok", lastOp'.res)
       /\ (ops' = ops + 1 /\ lastOp'.op = "create_project") =>
             CreatesOne(db.projects, db'.projects, lastOp'.res = "ok",
                        lastOp'.res)]_vars

(* Two bootstraps have both tried to create the default user: one has      *)
(* created it, the other has failed with EntityExistsError.                *)
C15_Witness ==
    /\ ops = 0
    /\ Cardinality(Named(db.users, DEFAULT_USERNAME)) = 1
    /\ \E s \in Stores, t \in Stores :
          /\ s # t
          /\ pc[s] = "failed" /\ err[s] = "EntityExistsError"
          /\ pc[t] \notin {"none", "failed", "user_lookup", "user_create"}
          /\ ~ config[t].skip_default_registrations

---------------------------------------------------------------------------
C17_GetOfUnknownFailsWithKeyError ==
    \A s \in Stores : pc[s] = "ready" =>
        /\ get_stack(db, db.next_id).res = "KeyError"
        /\ get_stack_component(db, db.next_id).res = "KeyError"
        /\ \A n \in UserNames :
              Named(db.users, n) = {} => get_user(db, n).res = "KeyError"
        /\ \A n \in ProjectNames :
              Named(db.projects, n) = {} => get_project(db, n).res = "KeyError"
        /\ get_pipeline(db, db.next_id).res = "KeyError"

---------------------------------------------------------------------------
(* C18: register_stack with a component set holding two components of the *)
(* same type fails validation, persists nothing and delivers no event; no  *)
(* registered stack holds two components of the same type.                 *)
C18_SameTypeStackFailsBeforeEvent ==
    /\ \A st \in db.stacks : ~ RepeatsType(db, st.components)
    /\ \A s \in Stores : pc[s] = "ready" =>
          \A u \in Ids(db.users), p \in Ids(db.projects), st \in StackArgs :
              RepeatsType(db, st.components) =>
                  LET r == register_stack(db, Env(s), u, p, st)
                  IN  /\ r.res = "ValidationError"
                      /\ r.db = db
                      /\ Events(r.trace) = <<>>

(* register_stack was called with two components of one type and failed.   *)
C18_Witness ==
    lastOp.op = "register_stack" /\ lastOp.res = "ValidationError"

---------------------------------------------------------------------------
(* C19: on a database at the predecessor revision, of any dialect, upgrade *)
(* changes only the type of pipeline_build.images (to String(16777215),    *)
(* MEDIUMTEXT on MySQL), and downgrade after it gives back the schema it   *)
(* started from: images is TEXT and not nullable, and every other column   *)
(* and table is as it was.                                                 *)
C19_UpgradeThenDowngradeRestoresSchema ==
    schema.version = down_revision =>
        LET before == schema.tables
            up == upgrade(before, schema.dialect)
            back == downgrade(up, schema.dialect)
        IN  /\ up = [before EXCEPT !["pipeline_build"]["images"].type =
                        IF schema.dialect = "mysql" THEN MEDIUMTEXT
                        ELSE String(16777215)]
            /\ back = before
            /\ back["pipeline_build"]["images"] =
                   [type |-> TEXT, nullable |-> FALSE]

(* A MySQL database was upgraded to 743ec82b1b3c and downgraded again. *)
C19_Witness ==
    /\ schema.dialect = "mysql"
    /\ schema.version = down_revision
    /\ Len(migration.log) >= 2
    /\ migration.log[Len(migration.log) - 1] =
           [op |-> "upgrade", rev |-> revision]
    /\ migration.log[Len(migration.log)] =
           [op |-> "downgrade", rev |-> revision]

---------------------------------------------------------------------------
(* The revisions applied since the store was last opened, in order. *)
AppliedOnOpening(m) ==
    [i \in 1..(Len(m.log) - m.mark) |-> m.log[m.mark + i]]

(* The forward revisions that remain for a database recorded at start. *)
Remaining(start) ==
    IF start = "743ec82b1b3c" THEN <<>>
    ELSE IF start = "9971237fa937"
    THEN <<[op |-> "upgrade", rev |-> "743ec82b1b3c"]>>
    ELSE <<[op |-> "upgrade", rev |-> "9971237fa937"],
           [op |-> "upgrade", rev |-> "743ec82b1b3c"]>>

(* C20: 743ec82b1b3c is applied only to a database recorded at             *)
(* 9971237fa937, a request to apply it to any other is refused with a      *)
(* fatal error that changes nothing, and a store that has been opened has  *)
(* had exactly the remaining forward revisions applied, each once, in      *)
(* chain order, and is recorded at the head 743ec82b1b3c.                  *)
C20_RevisionsAppliedInChainOrder ==
    [][/\ migration'.log =
              Append(migration.log, [op |-> "upgrade", rev |-> "743ec82b1b3c"])
          => schema.version = "9971237fa937" /\ schema'.version = "743ec82b1b3c"
       /\ ( /\ migration.status = "idle" /\ migration'.status # "migrating"
            /\ migration'.attempt = [op |-> "upgrade", rev |-> "743ec82b1b3c"]
            /\ schema.version # "9971237fa937" )
          => migration'.status = "error" /\ schema' = schema
       /\ (migration.status = "migrating" /\ migration'.status = "idle")
          => /\ schema'.version = "743ec82b1b3c"
             /\ AppliedOnOpening(migration') = Remaining(migration.start)
      ]_vars

(* A store recorded before 9971237fa937 was opened and is at the head. *)
C20_Witness ==
    /\ migration.status = "idle"
    /\ migration.start = Earlier
    /\ migration.log = <<[op |-> "upgrade", rev |-> down_revision],
                         [op |-> "upgrade", rev |-> revision]>>
    /\ schema.version = revision

(* A request to apply 743ec82b1b3c to a database not at its predecessor    *)
(* was refused.                                                            *)
C20_WitnessRefused ==
    /\ migration.status = "error"
    /\ migration.attempt = [op |-> "upgrade", rev |-> revision]

---------------------------------------------------------------------------
(* The number of times event x occurs in the sequence ev. *)
Count(ev, x) == Len(SelectSeq(ev, LAMBDA y : y = x))

(* C21: during the bootstrap of a store with analytics enabled, the step   *)
(* of create_default_user (create_default_project) that creates the        *)
(* default user (project) delivers exactly one CREATED_DEFAULT_USER        *)
(* (CREATED_DEFAULT_PROJECT) event, the step whose lookup finds it         *)
(* delivers none and creates nothing, and no construction delivers either  *)
(* event twice.                                                            *)
C21_DefaultCreationEmitsOneEvent ==
    [][\A s \in Stores :
          /\ (pc[s] = "user_create" /\ pc'[s] = "project_lookup"
                /\ config[s].track_analytics)
             => /\ emitted'[s] = Append(emitted[s], "CREATED_DEFAULT_USER")
                /\ Named(db.users, DEFAULT_USERNAME) = {}
                /\ Cardinality(Named(db'.users, DEFAULT_USERNAME)) = 1
          /\ (pc[s] = "user_lookup" /\ pc'[s] = "project_lookup")
             => /\ emitted'[s] = emitted[s] /\ db' = db
                /\ Named(db.users, DEFAULT_USERNAME) # {}
          /\ (pc[s] = "project_create" /\ pc'[s] = "probe"
                /\ config[s].track_analytics)
             => /\ emitted'[s] = Append(emitted[s], "CREATED_DEFAULT_PROJECT")
                /\ Named(db.projects, DEFAULT_PROJECT_NAME) = {}
                /\ Cardinality(Named(db'.projects, DEFAULT_PROJECT_NAME)) = 1
          /\ (pc[s] = "project_lookup" /\ pc'[s] = "probe")
             => /\ emitted'[s] = emitted[s] /\ db' = db
                /\ Named(db.projects, DEFAULT_PROJECT_NAME) # {}
          /\ Count(emitted'[s], "CREATED_DEFAULT_USER") <= 1
          /\ Count(emitted'[s], "CREATED_DEFAULT_PROJECT") <= 1
      ]_vars

(* One store has created the default user and delivered its event, the     *)
(* other has found that user by its lookup and delivered nothing.          *)
C21_Witness ==
    \E s \in Stores, t \in Stores :
        /\ s # t
        /\ config[s].track_analytics /\ config[t].track_analytics
        /\ emitted[s] = <<"CREATED_DEFAULT_USER", "CREATED_DEFAULT_PROJECT">>
        /\ pc[s] = "probe"
        /\ pc[t] = "project_lookup" /\ emitted[t] = <<>>

---------------------------------------------------------------------------
(* C22: in a construction the registration of the default stack is         *)
(* entered exactly by the step that evaluates stacks_empty, if and only if *)
(* the backend holds no stack at all at that step, and that step comes     *)
(* only after the steps of create_default_user and create_default_project. *)
C22_RegistrationIffProbeFindsNoStack ==
    [][\A s \in Stores :
          /\ (pc[s] = "probe" /\ pc'[s] # pc[s])
             => /\ db' = db
                /\ pc'[s] = (IF db.stacks = {} THEN "orchestrator" ELSE "ready")
          /\ (pc'[s] = "orchestrator" /\ pc[s] # "orchestrator")
             => pc[s] = "probe"
          /\ (pc'[s] = "probe" /\ pc[s] # "probe")
             => pc[s] \in {"project_lookup", "project_create"}
          /\ (pc'[s] = "project_lookup" /\ pc[s] # "project_lookup")
             => pc[s] \in {"user_lookup", "user_create"}
      ]_vars

(* One store's probe found a stack and skipped the registration, after the *)
(* other store's probe had found none and registered the default stack.    *)
C22_Witness ==
    \E s \in Stores, t \in Stores :
        /\ pc[s] = "ready" /\ emitted[s] = <<>>
        /\ ~ config[s].skip_default_registrations
        /\ pc[t] = "ready"
        /\ emitted[t] = <<"CREATED_DEFAULT_USER", "CREATED_DEFAULT_PROJECT",
                          "REGISTERED_DEFAULT_STACK">>
        /\ ops = 0

---------------------------------------------------------------------------
(* Store s is inside register_default_stack. *)
InRegisterDefaultStack(s) == pc[s] \in {"orchestrator", "artifact_store", "stack"}

(* C23: with analytics enabled, the step that ends register_default_stack  *)
(* delivers exactly one REGISTERED_DEFAULT_STACK event, and at that step   *)
(* the orchestrator, the artifact store and the stack that references them *)
(* are in the backend; no other step delivers that event, and a run in     *)
(* which a registration fails has delivered none.                          *)
C23_DefaultStackEventIsTerminal ==
    [][\A s \in Stores :
          /\ (InRegisterDefaultStack(s) /\ pc'[s] = "ready"
                /\ config[s].track_analytics)
             => /\ emitted'[s] = Append(emitted[s], "REGISTERED_DEFAULT_STACK")
                /\ Count(emitted'[s], "REGISTERED_DEFAULT_STACK") = 1
                /\ \E st \in db'.stacks, o \in db'.components, a \in db'.components :
                      /\ st \notin db.stacks
                      /\ st.name = DEFAULT_STACK_NAME
                      /\ o.type = ORCHESTRATOR /\ a.type = ARTIFACT_STORE
                      /\ st.components = {o.id, a.id}
          /\ Count(emitted'[s], "REGISTERED_DEFAULT_STACK")
                > Count(emitted[s], "REGISTERED_DEFAULT_STACK")
             => pc[s] = "stack" /\ pc'[s] = "ready"
          /\ (InRegisterDefaultStack(s) /\ pc'[s] = "failed")
             => Count(emitted'[s], "REGISTERED_DEFAULT_STACK") = 0
      ]_vars

(* A run of register_default_stack has ended with its event delivered. *)
C23_Witness ==
    \E s \in Stores :
        /\ pc[s] = "ready" /\ config[s].track_analytics
        /\ Count(emitted[s], "REGISTERED_DEFAULT_STACK") = 1
        /\ Named(db.stacks, DEFAULT_STACK_NAME) # {}

(* A run of register_default_stack has failed at the stack registration,   *)
(* after both components were persisted.                                   *)
C23_WitnessFailed ==
    \E s \in Stores :
        /\ pc[s] = "failed" /\ err[s] # "RuntimeError" /\ err[s] # "TypeError"
        /\ \E o \in db.components, a \in db.components :
              o.type = ORCHESTRATOR /\ a.type = ARTIFACT_STORE
        /\ Named(db.stacks, DEFAULT_STACK_NAME) = {}

---------------------------------------------------------------------------
(* The stores that can issue an operation have analytics disabled. *)
AnalyticsDisabled ==
    \A s \in Stores : pc[s] = "ready" => ~ config[s].track_analytics

(* C24: a store constructed with track_analytics False delivers no event,  *)
(* neither in the steps of its bootstrap nor in any operation called on    *)
(* it, update_stack included.                                              *)
C24_NoEventWithAnalyticsDisabled ==
    [][/\ \A s \in Stores :
             ~ config'[s].track_analytics => emitted'[s] = <<>>
       /\ (ops' = ops + 1 /\ AnalyticsDisabled)
             => Events(lastOp'.trace) = <<>>
      ]_vars

---------------------------------------------------------------------------
(* C25: a construction with skip_default_registrations True that does not  *)
(* fail in _initialize is complete in its one step: the backend is as it   *)
(* was, no event is delivered, and the store is never at a lookup, a       *)
(* creation, the probe or a registration of the bootstrap.                 *)
C25_SkippedBootstrapTouchesNothing ==
    [][\A s \in Stores :
          /\ (constructions' = constructions + 1
                /\ config'[s].skip_default_registrations)
             => pc'[s] = "ready" /\ db' = db /\ emitted'[s] = <<>>
          /\ config'[s].skip_default_registrations
             => pc'[s] = "ready" /\ emitted'[s] = <<>>
      ]_vars

(* A store was constructed on an empty backend with the bootstrap skipped: *)
(* it is usable and the backend is still empty.                            *)
C25_Witness ==
    /\ pc["s1"] = "ready" /\ config["s1"].skip_default_registrations
    /\ db = EmptyDb /\ emitted["s1"] = <<>>
    /\ constructions = 1

---------------------------------------------------------------------------
(* C26: on a constructed store whose default project exists, the stacks    *)
(* property holds every stack of the backend, of whatever project.         *)
C26_StacksHoldsEveryStack ==
    \A s \in Stores :
        (pc[s] = "ready" /\ default_project_id(db) # None)
            => stacks(db) = db.stacks

---------------------------------------------------------------------------
(* C27: a store constructed, one construction at a time, on a backend that *)
(* contract operations have changed since a bootstrap never fails with an  *)
(* Already-Exists error.                                                   *)
C27_ReconstructionNeverRaisesAlreadyExists ==
    [][\A s \in Stores :
          (ConstructionStep /\ pc[s] # "failed" /\ pc'[s] = "failed")
              => err'[s] \notin AlreadyExists]_vars

---------------------------------------------------------------------------
(* A default component is in the backend and no stack is: what a run of    *)
(* register_default_stack leaves when it ends between its registrations.   *)
Orphaned(d) ==
    /\ \E c \in d.components : c.name = "default"
    /\ d.stacks = {}

(* C28: when a bootstrap has ended inside register_default_stack with a    *)
(* default component persisted and no default stack, no step of a later    *)
(* construction on that backend fails, unless it is interrupted itself.    *)
C28_InterruptedBootstrapIsRecoverable ==
    [][\A s \in Stores :
          (Orphaned(db) /\ pc[s] # "failed" /\ pc'[s] = "failed")
              => err'[s] \in {"Interrupted", "RuntimeError", "TypeError"}]_vars

---------------------------------------------------------------------------
(* Entity x of the backend d has the owner and the project of every        *)
(* component of d among comps, and neither is null.                        *)
SameScope(d, x, comps) ==
    /\ x.owner # None /\ x.project # None
    /\ \A c \in d.components :
          c.id \in comps => x.owner = c.owner /\ x.project = c.project

(* C29: in a run of register_default_stack, the artifact store is          *)
(* registered with the owner and the project of the orchestrator, and the  *)
(* stack with those of both components, and none of them is null,          *)
(* whatever callers do to users and projects between the registrations.    *)
C29_DefaultStackHasOneOwnerAndProject ==
    [][\A s \in Stores :
          /\ (pc[s] = "artifact_store" /\ pc'[s] = "stack")
             => \A c \in db'.components \ db.components :
                    SameScope(db', c, {orchestrator[s]})
          /\ (pc[s] = "stack" /\ pc'[s] = "ready")
             => \A st \in db'.stacks \ db.stacks :
                    SameScope(db', st, {orchestrator[s], artifact_store[s]})
      ]_vars

---------------------------------------------------------------------------
(* The events of a bootstrap that seeds an empty backend. *)
BootstrapEvents ==
    <<"CREATED_DEFAULT_USER", "CREATED_DEFAULT_PROJECT",
      "REGISTERED_DEFAULT_STACK">>

(* C30: with analytics enabled and the collector reachable, a construction *)
(* that completes the bootstrap on an empty backend has delivered exactly  *)
(* CREATED_DEFAULT_USER, CREATED_DEFAULT_PROJECT, REGISTERED_DEFAULT_STACK *)
(* in this order and nothing else, and a construction that has passed      *)
(* _initialize and stands before the creation of the default user has      *)
(* delivered nothing yet.                                                  *)
C30_FreshBootstrapEmitsThreeEvents ==
    \A s \in Stores :
        /\ pc[s] \in {"user_lookup", "user_create"} => emitted[s] = <<>>
        /\ (Bootstrapped(s) /\ config[s].track_analytics /\ tracker_up
              /\ ops = 0)
           => /\ constructions = 1 => emitted[s] = BootstrapEvents
              /\ emitted[s] # <<>> => emitted[s] = BootstrapEvents

(* The first construction, with analytics enabled, has completed on the    *)
(* empty backend and seeded it.                                            *)
C30_Witness ==
    /\ Bootstrapped("s1") /\ config["s1"].track_analytics /\ tracker_up
    /\ ops = 0 /\ constructions = 1
    /\ DefaultsExist(db)
    /\ Len(emitted["s1"]) = 3

====
